---- MODULE Spec2Model ----
(***************************************************************************)
(* The recurring payment stream engine of SevaStream:                      *)
(*   - the useX402 hook (frontend/src/hooks/useX402.ts): the list of       *)
(*     X402Stream records kept in React state, one setInterval timer per   *)
(*     stream, and the asynchronous processPayment call of every tick;     *)
(*   - the socket hub (backend/src/services/socketService.ts): the         *)
(*     module-level registry of DonationStream records and the events the  *)
(*     hub emits to its connected sockets;                                 *)
(*   - the DonorPortal component (its start and stop handlers and the fee  *)
(*     it shows) and the hook's fee function;                              *)
(*   - the REST routes of the donations (backend/src/routes/donations.ts)  *)
(*     and the x402 payment middleware (backend/src/middleware/x402.ts).   *)
(* The engine is specified twice: without time (Spec, LiveSpec) and with   *)
(* Date.now() and the expiry times of its timers (ClockSpec).              *)
(* Amounts are integers, fees thousandths; the hook's stream ids are the   *)
(* naturals 1, 2, ... in the order of creation, standing for the strings   *)
(* `stream_${Date.now()}_${random}`, taken to be pairwise different.       *)
(* A state updater passed to setActiveStreams is applied within the step   *)
(* that passes it: React applies the updaters in the order they were       *)
(* queued, and stopPaymentStream is called from a click handler, whose     *)
(* updates React flushes before any timer callback runs.                   *)
(***************************************************************************)
EXTENDS Integers, Sequences, FiniteSets, TLC

\* ------------------------------------------------------------------ bounds
MaxStreams == 2        \* streams started through the hook in one run
MaxTicks == 3          \* timer firings in one run, over all streams
MaxStopCalls == 2      \* stopPaymentStream calls for existing streams in one run
MaxHubSteps == 4       \* connections and messages the socket hub handles in one run
MaxTime == 4           \* clock steps that pass in one run of the timed engine
MaxFeeAmount == 12     \* the largest amount a fee is calculated for
MaxInputLen == 2       \* characters typed into the portal's amount field
MaxDonations == 2      \* donations created through POST /stream in one run
MaxProofLen == 11      \* the longest x-payment-proof header of a request
MaxAmountLen == 4      \* the longest x-payment-amount header of a request

\* --------------------------------------------------------- program constants
PaymentLatencyMs == 1000   \* the simulated payment takes 1000 ms
MsPerSecond == 1000        \* setInterval(..., intervalSeconds * 1000)
ClockStepMs == 1000        \* the clock's step: every delay in the hook is a multiple
FeeScale == 1000           \* fees and totals are counted in thousandths of a USDC
MinimumFee == 10           \* Math.max(0.01, ...): 0.01 USDC, in thousandths
FeeRateScaled == 1         \* amount * 0.001: thousandths of fee per USDC of amount
PortalIntervalSeconds == 10   \* startPaymentStream(amount, selectedCause, 10)
MockDonations == 2         \* the donations with ids '1' and '2' the routes start with
MinProofLength == 10       \* proof.length < 10
MinAmountDenominator == 1000   \* parseFloat(amount) < 0.001: 1 / 1000

\* ---------------------------------------------------------------- inputs
\* (amount, recipient, intervalSeconds) of a startPaymentStream call: any number,
\* any string, any number. Two valid calls (the default interval, and an interval
\* as short as a payment takes) and one call for each way of being invalid.
StartArgs ==
    { <<2, "cause-1", 10>>, <<1, "cause-2", 1>>,
      <<0, "cause-1", 10>>, <<-1, "cause-1", 10>>,
      <<1, "", 10>>, <<1, "cause-1", 0>> }
\* the calls of the timed engine: valid, with an interval longer than a payment
\* takes and an interval as short as a payment takes
ClockStartArgs == { <<2, "cause-1", 2>>, <<1, "cause-2", 1>> }
StreamIds == 1..MaxStreams
FeeAmounts == (-2)..MaxFeeAmount   \* the amount of a calculateX402Fee call, in USDC
PortalChars == {"-", "0", "1", "5"}    \* what is typed into the amount field
PortalCauses == {"", "1"}          \* the cause select: none, or need.id.toString()
Clients == {"c1", "c2"}            \* sockets that may connect to the hub
HubIds == {"s1", "s2"}             \* data.streamId: chosen by the sending client
HubDonors == {"d1", "d2"}          \* data.donor
HubAmounts == {5}                  \* data.amount
HubRecipients == {"r1"}            \* data.recipient
HubCauses == {"Education"}         \* data.cause
HubTitles == {"Flood relief"}      \* data.title of an urgentNeedAlert message
HubUpdates == {"update-1"}         \* the data of a broadcast update
\* req.params.id: the ids '1' and '2' of the initial donations are 1 and 2, the
\* uuids of the created donations the numbers after them, 0 an id of no donation
DonationIds == 0..(MockDonations + MaxDonations)
AmountChars == {"0", "1", ".", "-", "x"}    \* the characters of an x-payment-amount header

VARIABLES
    streams,     \* activeStreams: the React state, a list of X402Stream records
    timers,      \* ids of the setInterval timers that are armed
    closure,     \* per stream id, what the interval callback captured
    inflight,    \* per stream id, processPayment calls awaiting their result
    nextId,      \* the next fresh stream id
    attempted,   \* history: per stream id, ticks begun (processPayment invoked)
    succeeded,   \* history: per stream id, ticks whose payment returned success
    failed,      \* history: per stream id, ticks whose payment returned failure
    stopCalls,   \* history: per stream id, stopPaymentStream calls made for the stream
    executor,    \* environment: per stream id, whether its payments always succeed
                 \* ("ok"), always fail ("fail") or do either ("any")
    connected,   \* hub: the sockets connected to io
    registry,    \* hub: activeStreams, the Map from streamId to DonationStream
    inbox,       \* hub: per socket, the events emitted to it, in order
    hubSteps,    \* history: connections and messages the hub has handled
    hubStarts,   \* history: per streamId, startDonationStream messages handled
    hubStops,    \* history: per streamId, stopDonationStream messages handled
    io,          \* hub: whether initializeSocket has set the module's io
    simulating,  \* hub: whether simulateRealTimeActivity has armed its timer
    published,   \* history: the events passed to io.emit, in order
    joinedAt,    \* history: per socket, how many events had been published
                 \* when it last connected
    now,         \* Date.now(), in ms since the hook was mounted
    startTime,   \* per stream id, the startTime field of its X402Stream record
    timerDue,    \* per stream id, when its interval timer next expires
    payDue,      \* per stream id, when its pending payments resolve, in order
    ret,         \* the last call made of the hook's functions and what it returned
    portal,      \* DonorPortal: its React state and the last alert it showed
    feeCalls,    \* the last two calculateX402Fee calls: amount and returned fee
    mockDonations,     \* routes: the list of donation records (id and status)
    completionTimers,  \* routes: ids of the donations whose completion timer is armed
    response,          \* routes: the last response sent
    gate               \* middleware: the last request and what was done with it

hookVars == <<streams, timers, closure, inflight, nextId>>
histVars == <<attempted, succeeded, failed, stopCalls, executor>>
hubVars == <<connected, registry, inbox, hubSteps, hubStarts, hubStops, io, simulating,
            published, joinedAt>>
clockVars == <<now, startTime, timerDue, payDue, ret>>
portalVars == <<portal, feeCalls>>
serverVars == <<mockDonations, completionTimers, response, gate>>
vars == <<hookVars, histVars, hubVars, clockVars, portalVars, serverVars>>

\* ----------------------------------------------------------- pure helpers
\* the sum of a history counter over all stream ids
RECURSIVE SumUpTo(_, _)
SumUpTo(f, n) == IF n = 0 THEN 0 ELSE f[n] + SumUpTo(f, n - 1)
Total(f) == SumUpTo(f, MaxStreams)

\* prev.find(s => s.id === streamId): the first matching index, 0 when none
FindIndex(prev, streamId) ==
    IF \E k \in 1..Len(prev) : prev[k].id = streamId
    THEN CHOOSE k \in 1..Len(prev) :
            /\ prev[k].id = streamId
            /\ \A j \in 1..(k - 1) : prev[j].id # streamId
    ELSE 0

\* the record startPaymentStream builds (with the intervalId it stores on it;
\* its startTime field, never written again, is kept in the variable startTime)
NewStream(streamId, amount, recipient, intervalSeconds) ==
    [id |-> streamId, amount |-> amount, recipient |-> recipient,
     interval |-> intervalSeconds, isActive |-> TRUE, totalSent |-> 0,
     intervalId |-> streamId]

\* prev => [...prev, newStream]
AppendUpdater(prev, newStream) == Append(prev, newStream)

\* a tick update that forgets the id test: every stream is credited
TickUpdaterNoIdTest(prev, streamId, amount) ==
    [k \in 1..Len(prev) |-> [prev[k] EXCEPT !.totalSent = @ + amount]]

\* a tick update that rebuilds the stream as it was created (active again)
TickUpdaterReactivates(prev, streamId, amount) ==
    [k \in 1..Len(prev) |->
        IF prev[k].id = streamId
        THEN [prev[k] EXCEPT !.totalSent = @ + amount, !.isActive = TRUE]
        ELSE prev[k]]

\* a tick update that also writes the running total into the amount field
TickUpdaterOverwritesAmount(prev, streamId, amount) ==
    [k \in 1..Len(prev) |->
        IF prev[k].id = streamId
        THEN [prev[k] EXCEPT !.totalSent = @ + amount, !.amount = @ + amount]
        ELSE prev[k]]

\* prev => prev.map(stream => stream.id === streamId
\*                   ? { ...stream, totalSent: stream.totalSent + amount } : stream)
TickUpdater(prev, streamId, amount) ==
    [k \in 1..Len(prev) |->
        IF prev[k].id = streamId
        THEN [prev[k] EXCEPT !.totalSent = @ + amount]
        ELSE prev[k]]

\* a stop that toggles the flag instead of clearing it
StopUpdaterToggles(prev, streamId) ==
    [k \in 1..Len(prev) |->
        IF prev[k].id = streamId
        THEN [prev[k] EXCEPT !.isActive = ~@]
        ELSE prev[k]]

\* a stop that forgets the id test: every stream is marked inactive
StopUpdaterStopsAll(prev, streamId) ==
    [k \in 1..Len(prev) |-> [prev[k] EXCEPT !.isActive = FALSE]]

\* prev => prev.map(s => s.id === streamId ? { ...s, isActive: false } : s)
StopUpdater(prev, streamId) ==
    [k \in 1..Len(prev) |->
        IF prev[k].id = streamId
        THEN [prev[k] EXCEPT !.isActive = FALSE]
        ELSE prev[k]]

\* a list that leaves the stopped streams in
GetAllStreamsNoFilter(prev) == prev

\* getAllStreams(), and the activeStreams value the hook returns:
\* activeStreams.filter(stream => stream.isActive)
GetAllStreams(prev) == SelectSeq(prev, LAMBDA stream : stream.isActive)

\* list.reduce((total, stream) => total + stream.amount, 0)
RECURSIVE ReduceAmount(_)
ReduceAmount(list) ==
    IF list = <<>> THEN 0 ELSE Head(list).amount + ReduceAmount(Tail(list))

\* getTotalStreamAmount(): the amounts of the streams that pass the isActive filter
GetTotalStreamAmount(prev) ==
    ReduceAmount(SelectSeq(prev, LAMBDA stream : stream.isActive))

\* a stop that leaves the timer armed
ClearedTimersNoClear(prev, tm, streamId) == tm

\* if (stream && stream.intervalId) clearInterval(stream.intervalId)
ClearedTimers(prev, tm, streamId) ==
    IF FindIndex(prev, streamId) # 0 /\ prev[FindIndex(prev, streamId)].intervalId # 0
    THEN tm \ {prev[FindIndex(prev, streamId)].intervalId}
    ELSE tm

\* the outcomes processPayment may report for a stream's payment
Outcomes(streamId) ==
    CASE executor[streamId] = "ok" -> {TRUE}
      [] executor[streamId] = "fail" -> {FALSE}
      [] OTHER -> {TRUE, FALSE}

\* whether the timer may fire again while a payment of the stream is pending:
\* the payment resolves after PaymentLatencyMs, the timer after interval * 1000
MayOverlap(streamId) ==
    closure[streamId].intervalMs <= PaymentLatencyMs

\* ------------------------------------------------------------ the socket hub
\* new Map(): no entries
EmptyMap == [x \in {} |-> 0]

\* activeStreams.set(key, value): a new entry, or the value of an existing one replaced
MapSet(m, key, value) ==
    [x \in DOMAIN m \cup {key} |-> IF x = key THEN value ELSE m[x]]

\* a delete that leaves the entry in the map
MapDeleteKeepsEntry(m, key) == m

\* activeStreams.delete(key)
MapDelete(m, key) == [x \in DOMAIN m \ {key} |-> m[x]]

\* Array.from(activeStreams.values())
MapValues(m) == {m[x] : x \in DOMAIN m}

\* the record the startDonationStream handler builds from the message
\* (startTime, the time of handling, is left out: nothing in the hub reads it)
DonationStream(streamId, donor, recipient, amount, cause) ==
    [id |-> streamId, donor |-> donor, recipient |-> recipient, amount |-> amount,
     cause |-> cause, status |-> "active"]

\* an emit that puts the event in front of what a socket was sent before
IoEmitPrepends(box, ev) ==
    [c \in Clients |-> IF c \in connected THEN <<ev>> \o box[c] ELSE box[c]]

\* an emit that reaches one connected socket only
IoEmitToOne(box, ev) ==
    [c \in Clients |->
        IF c \in connected /\ c = (CHOOSE d \in connected : TRUE)
        THEN Append(box[c], ev) ELSE box[c]]

\* io.emit(event): to every connected socket
IoEmit(box, ev) ==
    [c \in Clients |-> IF c \in connected THEN Append(box[c], ev) ELSE box[c]]

\* an acknowledgement that goes to every connected socket
SocketEmitToAll(box, socket, ev) ==
    [x \in DOMAIN box |-> IF x \in connected THEN Append(box[x], ev) ELSE box[x]]

\* socket.emit(event): to the one socket
SocketEmit(box, socket, ev) == [box EXCEPT ![socket] = Append(@, ev)]

\* ------------------------------------------------------------------ state
\* the result of getStreamStats; successRate is kept as the fraction
\* rateNum / rateDen, runtime in ms (the code divides it by 1000 for display)
NoStats ==
    [runtimeMs |-> 0, totalSent |-> 0, expectedPayments |-> 0, actualPayments |-> 0,
     rateNum |-> 0, rateDen |-> 1, isActive |-> FALSE]

\* no call of the hook's functions has been made yet
NoCall ==
    [op |-> "none", id |-> 0, issued |-> FALSE, value |-> "none",
     stats |-> NoStats]

\* DonorPortal as mounted: useState('') twice, useState(false) twice,
\* useState(null); the wallet is not connected and no alert has been shown
PortalInit ==
    [donationAmount |-> <<>>, selectedCause |-> "", isConnected |-> FALSE,
     isStreaming |-> FALSE, isProcessing |-> FALSE, currentStreamId |-> 0,
     alert |-> [kind |-> "none", amount |-> 0, total |-> 0]]

\* no calculateX402Fee call has been made yet
NoFeeCall == [called |-> FALSE, amount |-> 0, fee |-> 0]

\* mockDonations as the module is loaded: '1' is completed, '2' is streaming
InitialDonations ==
    <<[id |-> 1, status |-> "completed"], [id |-> 2, status |-> "streaming"]>>

\* no response sent yet
NoResponse == [route |-> "none", id |-> 0, code |-> 0]

\* a header that the request does not carry (req.headers[name] is undefined)
NoHeader == [present |-> FALSE, text |-> <<>>]

\* no request handled yet
NoRequest == [proof |-> NoHeader, amount |-> NoHeader, effects |-> <<>>]

Init ==
    /\ streams = <<>>
    /\ timers = {}
    /\ closure = [i \in StreamIds |-> [amount |-> 0, recipient |-> "", intervalMs |-> 0]]
    /\ inflight = [i \in StreamIds |-> 0]
    /\ nextId = 1
    /\ attempted = [i \in StreamIds |-> 0]
    /\ succeeded = [i \in StreamIds |-> 0]
    /\ failed = [i \in StreamIds |-> 0]
    /\ stopCalls = [i \in StreamIds |-> 0]
    /\ executor = [i \in StreamIds |-> "any"]
    /\ connected = {}
    /\ registry = EmptyMap
    /\ inbox = [c \in Clients |-> <<>>]
    /\ hubSteps = 0
    /\ hubStarts = [id \in HubIds |-> 0]
    /\ hubStops = [id \in HubIds |-> 0]
    /\ io = FALSE
    /\ simulating = FALSE
    /\ published = <<>>
    /\ joinedAt = [c \in Clients |-> 0]
    /\ now = 0
    /\ startTime = [i \in StreamIds |-> 0]
    /\ timerDue = [i \in StreamIds |-> 0]
    /\ payDue = [i \in StreamIds |-> <<>>]
    /\ ret = NoCall
    /\ portal = PortalInit
    /\ feeCalls = <<NoFeeCall, NoFeeCall>>
    /\ mockDonations = InitialDonations
    /\ completionTimers = {}
    /\ response = NoResponse
    /\ gate = NoRequest

\* startPaymentStream(amount, recipient, intervalSeconds)
StartPaymentStream(amount, recipient, intervalSeconds, ex) ==
    /\ nextId <= MaxStreams
    /\ streams' = AppendUpdater(streams, NewStream(nextId, amount, recipient, intervalSeconds))
    /\ timers' = timers \cup {nextId}
    /\ closure' = [closure EXCEPT ![nextId] =
                      [amount |-> amount, recipient |-> recipient,
                       intervalMs |-> intervalSeconds * MsPerSecond]]
    /\ executor' = [executor EXCEPT ![nextId] = ex]
    /\ nextId' = nextId + 1
    /\ UNCHANGED <<inflight, attempted, succeeded, failed, stopCalls, hubVars, clockVars, portalVars, serverVars>>

\* the interval callback up to its await: processPayment is invoked
TimerFire(streamId) ==
    /\ streamId \in timers
    /\ Total(attempted) < MaxTicks
    /\ inflight[streamId] = 0 \/ MayOverlap(streamId)
    /\ inflight' = [inflight EXCEPT ![streamId] = @ + 1]
    /\ attempted' = [attempted EXCEPT ![streamId] = @ + 1]
    /\ UNCHANGED <<streams, timers, closure, nextId, succeeded, failed, stopCalls, executor, hubVars, clockVars, portalVars, serverVars>>

\* a callback that gives the stream up on a failed payment
PaymentDoneAbortsOnFailure(streamId, success) ==
    /\ inflight[streamId] > 0
    /\ success \in Outcomes(streamId)
    /\ inflight' = [inflight EXCEPT ![streamId] = @ - 1]
    /\ IF success
       THEN /\ streams' = TickUpdater(streams, streamId, closure[streamId].amount)
            /\ succeeded' = [succeeded EXCEPT ![streamId] = @ + 1]
            /\ UNCHANGED <<failed, timers>>
       ELSE /\ failed' = [failed EXCEPT ![streamId] = @ + 1]
            /\ streams' = StopUpdater(streams, streamId)
            /\ timers' = timers \ {streamId}
            /\ UNCHANGED succeeded
    /\ UNCHANGED <<closure, nextId, attempted, stopCalls, executor, hubVars, clockVars, portalVars, serverVars>>

\* the interval callback after its await: the payment's result arrives
PaymentDone(streamId, success) ==
    /\ inflight[streamId] > 0
    /\ success \in Outcomes(streamId)
    /\ inflight' = [inflight EXCEPT ![streamId] = @ - 1]
    /\ IF success
       THEN /\ streams' = TickUpdater(streams, streamId, closure[streamId].amount)
            /\ succeeded' = [succeeded EXCEPT ![streamId] = @ + 1]
            /\ UNCHANGED failed
       ELSE /\ failed' = [failed EXCEPT ![streamId] = @ + 1]
            /\ UNCHANGED <<streams, succeeded>>
    /\ UNCHANGED <<timers, closure, nextId, attempted, stopCalls, executor, hubVars, clockVars, portalVars, serverVars>>

\* stopPaymentStream(streamId)
StopPaymentStream(streamId) ==
    /\ streamId < nextId => Total(stopCalls) < MaxStopCalls
    /\ timers' = ClearedTimers(streams, timers, streamId)
    /\ streams' = StopUpdater(streams, streamId)
    /\ stopCalls' = [stopCalls EXCEPT ![streamId] = IF streamId < nextId THEN @ + 1 ELSE @]
    /\ UNCHANGED <<closure, inflight, nextId, attempted, succeeded, failed, executor, hubVars, clockVars, portalVars, serverVars>>

Next ==
    \/ \E t \in StartArgs : StartPaymentStream(t[1], t[2], t[3], "any")
    \/ \E i \in StreamIds : TimerFire(i)
    \/ \E i \in StreamIds, ok \in BOOLEAN : PaymentDone(i, ok)
    \/ \E i \in StreamIds : StopPaymentStream(i)

Spec == Init /\ [][Next]_vars

\* The same engine started with valid parameters only, each stream with a payment
\* capability that always succeeds or always fails, under the scheduling the
\* browser gives: an armed interval timer keeps firing, a pending payment resolves.
ValidStartArgs == {t \in StartArgs : t[1] > 0 /\ t[2] # "" /\ t[3] > 0}

EnvNext ==
    \/ \E t \in ValidStartArgs, ex \in {"ok", "fail"} :
          StartPaymentStream(t[1], t[2], t[3], ex)
    \/ \E i \in StreamIds : TimerFire(i)
    \/ \E i \in StreamIds, ok \in BOOLEAN : PaymentDone(i, ok)
    \/ \E i \in StreamIds : StopPaymentStream(i)

Fairness ==
    \A i \in StreamIds :
        /\ WF_vars(TimerFire(i))
        /\ WF_vars(\E ok \in BOOLEAN : PaymentDone(i, ok))

LiveSpec == Init /\ [][EnvNext]_vars /\ Fairness

\* ------------------------------------------------ the engine with its clock
\* The same handlers with Date.now(), the expiry time of every interval timer and
\* the time every pending payment resolves. A timer callback runs at its expiry
\* time (time does not pass while one is due); callbacks due at the same time
\* run in either order.

\* a setInterval whose first expiry is immediate
ArmIntervalFiresAtOnce(t, intervalSeconds) == t

\* setInterval(callback, intervalSeconds * 1000) at time t: the next expiry
ArmInterval(t, intervalSeconds) == t + intervalSeconds * MsPerSecond

\* statistics that report a full success rate while no payment is expected yet
GetStreamStatsFullRateAtZero(prev, streamId, t) ==
    LET stream == prev[FindIndex(prev, streamId)]
        runtime == t - startTime[stream.id]
        expectedPayments == runtime \div (stream.interval * MsPerSecond)
        actualPayments == stream.totalSent \div stream.amount
    IN  [runtimeMs |-> runtime, totalSent |-> stream.totalSent,
         expectedPayments |-> expectedPayments, actualPayments |-> actualPayments,
         rateNum |-> IF expectedPayments > 0 THEN actualPayments * 100 ELSE 100,
         rateDen |-> IF expectedPayments > 0 THEN expectedPayments ELSE 1,
         isActive |-> stream.isActive]

\* getStreamStats(streamId) at time t, for a stream that activeStreams.find finds:
\*   runtime = Date.now() - stream.startTime
\*   expectedPayments = Math.floor(runtime / (stream.interval * 1000))
\*   actualPayments = stream.totalSent / stream.amount
\*   successRate = expectedPayments > 0 ? (actualPayments / expectedPayments) * 100 : 0
GetStreamStats(prev, streamId, t) ==
    LET stream == prev[FindIndex(prev, streamId)]
        runtime == t - startTime[stream.id]
        expectedPayments == runtime \div (stream.interval * MsPerSecond)
        actualPayments == stream.totalSent \div stream.amount
    IN  [runtimeMs |-> runtime, totalSent |-> stream.totalSent,
         expectedPayments |-> expectedPayments, actualPayments |-> actualPayments,
         rateNum |-> IF expectedPayments > 0 THEN actualPayments * 100 ELSE 0,
         rateDen |-> IF expectedPayments > 0 THEN expectedPayments ELSE 1,
         isActive |-> stream.isActive]

\* startPaymentStream(amount, recipient, intervalSeconds) at time now: returns the id
StartPaymentStreamAt(amount, recipient, intervalSeconds) ==
    /\ nextId <= MaxStreams
    /\ streams' = AppendUpdater(streams, NewStream(nextId, amount, recipient, intervalSeconds))
    /\ timers' = timers \cup {nextId}
    /\ closure' = [closure EXCEPT ![nextId] =
                      [amount |-> amount, recipient |-> recipient,
                       intervalMs |-> intervalSeconds * MsPerSecond]]
    /\ nextId' = nextId + 1
    /\ startTime' = [startTime EXCEPT ![nextId] = now]
    /\ timerDue' = [timerDue EXCEPT ![nextId] = ArmInterval(now, intervalSeconds)]
    /\ ret' = [op |-> "startPaymentStream", id |-> nextId, issued |-> TRUE,
               value |-> "streamId", stats |-> NoStats]
    /\ UNCHANGED <<inflight, now, payDue, histVars, hubVars, portalVars, serverVars>>

\* a timer that is armed again only when the tick's payment has returned
RearmIntervalAfterPayment(t, intervalMs) == t + PaymentLatencyMs + intervalMs

\* the repetition of setInterval: the next expiry is one interval after the
\* expiry at time t, whatever the callback awaits
RearmInterval(t, intervalMs) == t + intervalMs

\* the interval timer of a stream expires: the callback runs up to its await
\* (processPayment is invoked and sets its 1000 ms timeout), the timer is re-armed
TimerExpires(streamId) ==
    /\ streamId \in timers
    /\ timerDue[streamId] <= now
    /\ Total(attempted) < MaxTicks
    /\ inflight' = [inflight EXCEPT ![streamId] = @ + 1]
    /\ attempted' = [attempted EXCEPT ![streamId] = @ + 1]
    /\ payDue' = [payDue EXCEPT ![streamId] = Append(@, now + PaymentLatencyMs)]
    /\ timerDue' = [timerDue EXCEPT ![streamId] =
                        RearmInterval(now, closure[streamId].intervalMs)]
    /\ UNCHANGED <<streams, timers, closure, nextId, succeeded, failed, stopCalls, executor,
                   now, startTime, ret, hubVars, portalVars, serverVars>>

\* the oldest pending payment of a stream resolves: the callback runs from its await
PaymentResolves(streamId, success) ==
    /\ payDue[streamId] # <<>>
    /\ Head(payDue[streamId]) <= now
    /\ success \in Outcomes(streamId)
    /\ payDue' = [payDue EXCEPT ![streamId] = Tail(@)]
    /\ inflight' = [inflight EXCEPT ![streamId] = @ - 1]
    /\ IF success
       THEN /\ streams' = TickUpdater(streams, streamId, closure[streamId].amount)
            /\ succeeded' = [succeeded EXCEPT ![streamId] = @ + 1]
            /\ UNCHANGED failed
       ELSE /\ failed' = [failed EXCEPT ![streamId] = @ + 1]
            /\ UNCHANGED <<streams, succeeded>>
    /\ UNCHANGED <<timers, closure, nextId, attempted, stopCalls, executor,
                   now, startTime, timerDue, ret, hubVars, portalVars, serverVars>>

\* stopPaymentStream(streamId) at time now: returns nothing (undefined)
StopPaymentStreamAt(streamId) ==
    /\ streamId < nextId => Total(stopCalls) < MaxStopCalls
    /\ timers' = ClearedTimers(streams, timers, streamId)
    /\ streams' = StopUpdater(streams, streamId)
    /\ stopCalls' = [stopCalls EXCEPT ![streamId] = IF streamId < nextId THEN @ + 1 ELSE @]
    /\ ret' = [op |-> "stopPaymentStream", id |-> streamId, issued |-> streamId < nextId,
               value |-> "undefined", stats |-> NoStats]
    /\ UNCHANGED <<closure, inflight, nextId, attempted, succeeded, failed, executor,
                   now, startTime, timerDue, payDue, hubVars, portalVars, serverVars>>

\* getStreamStats(streamId) at time now: null when no stream has the id
GetStreamStatsAt(streamId) ==
    /\ ret' = IF FindIndex(streams, streamId) = 0
              THEN [op |-> "getStreamStats", id |-> streamId, issued |-> streamId < nextId,
                    value |-> "null", stats |-> NoStats]
              ELSE [op |-> "getStreamStats", id |-> streamId, issued |-> streamId < nextId,
                    value |-> "stats",
                    stats |-> GetStreamStats(streams, streamId, now)]
    /\ UNCHANGED <<hookVars, histVars, now, startTime, timerDue, payDue, hubVars, portalVars, serverVars>>

\* time passes, when no timer and no payment is due
Advance ==
    /\ now < MaxTime * ClockStepMs
    /\ \A i \in timers : timerDue[i] > now
    /\ \A i \in StreamIds : IF payDue[i] = <<>> THEN TRUE ELSE Head(payDue[i]) > now
    /\ now' = now + ClockStepMs
    /\ UNCHANGED <<hookVars, histVars, startTime, timerDue, payDue, ret, hubVars, portalVars, serverVars>>

ClockNext ==
    \/ \E t \in ClockStartArgs : StartPaymentStreamAt(t[1], t[2], t[3])
    \/ \E i \in StreamIds : TimerExpires(i)
    \/ \E i \in StreamIds, ok \in BOOLEAN : PaymentResolves(i, ok)
    \/ \E i \in StreamIds : StopPaymentStreamAt(i)
    \/ \E i \in StreamIds : GetStreamStatsAt(i)
    \/ Advance

ClockSpec == Init /\ [][ClockNext]_vars

\* ------------------------------------------------------ fees and the portal
Max(a, b) == IF a >= b THEN a ELSE b

\* a fee that is capped by the constant instead of floored by it
CalculateX402FeeCapped(amount) ==
    IF amount * FeeRateScaled <= MinimumFee THEN amount * FeeRateScaled ELSE MinimumFee

\* useX402.calculateX402Fee: Math.max(0.01, amount * 0.001), in thousandths
CalculateX402Fee(amount) == Max(MinimumFee, amount * FeeRateScaled)

\* DonorPortal's own calculateX402Fee: amount * 0.001, in thousandths
PortalCalculateX402Fee(amount) == amount * FeeRateScaled

\* x.toFixed(4) of a number of thousandths: the number its four decimals denote,
\* in ten-thousandths
ToFixed4(thousandths) == thousandths * 10

\* what the value of an <input type="number"> can be: empty, or a numeral
\* (an optional minus sign, then digits)
IsNumeral(s) ==
    LET body == IF s[1] = "-" THEN Tail(s) ELSE s IN
    /\ body # <<>>
    /\ \A k \in 1..Len(body) : body[k] # "-"

InputValues ==
    {<<>>} \cup {s \in UNION {[1..n -> PortalChars] : n \in 1..MaxInputLen} : IsNumeral(s)}

DigitValue(ch) == CASE ch = "0" -> 0 [] ch = "1" -> 1 [] ch = "5" -> 5

RECURSIVE DigitsValue(_)
DigitsValue(digits) ==
    IF digits = <<>> THEN 0
    ELSE DigitsValue(SubSeq(digits, 1, Len(digits) - 1)) * 10
         + DigitValue(digits[Len(digits)])

\* parseFloat(s) of a numeral
ParseFloat(s) ==
    IF s[1] = "-" THEN 0 - DigitsValue(Tail(s)) ELSE DigitsValue(s)

\* calculateX402Fee(amount), as called by a component that uses the hook
CalculateX402FeeCall(amount) ==
    /\ feeCalls' = <<feeCalls[2],
                     [called |-> TRUE, amount |-> amount, fee |-> CalculateX402Fee(amount)]>>
    /\ UNCHANGED <<portal, hookVars, histVars, hubVars, clockVars, serverVars>>

FeeNext == \E a \in FeeAmounts : CalculateX402FeeCall(a)

FeeSpec == Init /\ [][FeeNext]_vars

\* onChange of the amount field: setDonationAmount(e.target.value)
SetDonationAmount(value) ==
    /\ portal' = [portal EXCEPT !.donationAmount = value]
    /\ UNCHANGED <<feeCalls, hookVars, histVars, hubVars, clockVars, serverVars>>

\* onChange of the cause select: setSelectedCause(e.target.value)
SetSelectedCause(value) ==
    /\ portal' = [portal EXCEPT !.selectedCause = value]
    /\ UNCHANGED <<feeCalls, hookVars, histVars, hubVars, clockVars, serverVars>>

\* useWallet: the wallet connects or disconnects
WalletChange(isConnected) ==
    /\ portal' = [portal EXCEPT !.isConnected = isConnected]
    /\ UNCHANGED <<feeCalls, hookVars, histVars, hubVars, clockVars, serverVars>>

\* handleStartStream, the onClick of the start button (rendered while not
\* streaming, disabled on an empty amount, no cause or no wallet): the fee and
\* the total are calculated, the stream is started through the hook, the alert
\* shows totalAmount.toFixed(4)
HandleStartStream ==
    /\ ~portal.isStreaming
    /\ portal.donationAmount # <<>>
    /\ portal.selectedCause # ""
    /\ portal.isConnected
    /\ nextId <= MaxStreams
    /\ LET amount == ParseFloat(portal.donationAmount)
           fee == PortalCalculateX402Fee(amount)
           totalAmount == amount * FeeScale + fee
       IN  /\ streams' = AppendUpdater(streams,
                             NewStream(nextId, amount, portal.selectedCause,
                                       PortalIntervalSeconds))
           /\ closure' = [closure EXCEPT ![nextId] =
                             [amount |-> amount, recipient |-> portal.selectedCause,
                              intervalMs |-> PortalIntervalSeconds * MsPerSecond]]
           /\ portal' = [portal EXCEPT
                            !.isStreaming = TRUE, !.isProcessing = FALSE,
                            !.currentStreamId = nextId,
                            !.alert = [kind |-> "started", amount |-> amount,
                                       total |-> ToFixed4(totalAmount)]]
    /\ timers' = timers \cup {nextId}
    /\ nextId' = nextId + 1
    /\ UNCHANGED <<inflight, feeCalls, histVars, hubVars, clockVars, serverVars>>

\* handleStopStream, the onClick of the stop button (rendered while streaming)
HandleStopStream ==
    /\ portal.isStreaming
    /\ Total(stopCalls) < MaxStopCalls
    /\ IF portal.currentStreamId # 0
       THEN /\ timers' = ClearedTimers(streams, timers, portal.currentStreamId)
            /\ streams' = StopUpdater(streams, portal.currentStreamId)
            /\ stopCalls' = [stopCalls EXCEPT ![portal.currentStreamId] = @ + 1]
       ELSE UNCHANGED <<timers, streams, stopCalls>>
    /\ portal' = [portal EXCEPT
                     !.isStreaming = FALSE, !.currentStreamId = 0,
                     !.alert = [kind |-> "stopped", amount |-> 0, total |-> 0]]
    /\ UNCHANGED <<closure, inflight, nextId, attempted, succeeded, failed, executor,
                   feeCalls, hubVars, clockVars, serverVars>>

\* the portal's handlers; the timers its streams arm are those of the engine
\* above and touch nothing the portal shows when a stream is started
PortalNext ==
    \/ \E v \in InputValues : SetDonationAmount(v)
    \/ \E c \in PortalCauses : SetSelectedCause(c)
    \/ \E b \in BOOLEAN : WalletChange(b)
    \/ HandleStartStream
    \/ HandleStopStream

PortalSpec == Init /\ [][PortalNext]_vars

\* ------------------------------------------------------------ the socket hub
\* initializeSocket(socketIo): io is set and the handlers are registered; in
\* development simulateRealTimeActivity arms its timer
InitializeSocket(development) ==
    /\ ~io
    /\ io' = TRUE
    /\ simulating' = development
    /\ UNCHANGED <<hubStops, connected, registry, inbox, hubSteps, hubStarts, published, joinedAt,
                   hookVars, histVars, clockVars, portalVars, serverVars>>

\* io.on('connection', socket => ...): the snapshot is sent to the new socket
Connection(socket) ==
    /\ hubSteps < MaxHubSteps
    /\ io
    /\ socket \notin connected
    /\ connected' = connected \cup {socket}
    /\ inbox' = SocketEmit(inbox, socket,
                   [name |-> "activeStreams", streams |-> MapValues(registry)])
    /\ joinedAt' = [joinedAt EXCEPT ![socket] = Len(published)]
    /\ hubSteps' = hubSteps + 1
    /\ UNCHANGED <<hubStops, registry, hubStarts, io, simulating, published,
                   hookVars, histVars, clockVars, portalVars, serverVars>>

\* a disconnect handler that drops the streams of the registry
DisconnectDropsStreams(socket) ==
    /\ hubSteps < MaxHubSteps
    /\ socket \in connected
    /\ connected' = connected \ {socket}
    /\ registry' = EmptyMap
    /\ hubSteps' = hubSteps + 1
    /\ UNCHANGED <<hubStops, inbox, hubStarts, io, simulating, published, joinedAt,
                   hookVars, histVars, clockVars, portalVars, serverVars>>

\* socket.on('disconnect', ...)
Disconnect(socket) ==
    /\ hubSteps < MaxHubSteps
    /\ socket \in connected
    /\ connected' = connected \ {socket}
    /\ hubSteps' = hubSteps + 1
    /\ UNCHANGED <<hubStops, registry, inbox, hubStarts, io, simulating, published, joinedAt,
                   hookVars, histVars, clockVars, portalVars, serverVars>>

\* socket.on('startDonationStream', data => ...)
StartDonationStream(socket, streamId, donor, recipient, amount, cause) ==
    /\ hubSteps < MaxHubSteps
    /\ socket \in connected
    /\ registry' = MapSet(registry, streamId, DonationStream(streamId, donor, recipient, amount, cause))
    /\ inbox' = SocketEmit(
                   IoEmit(inbox, [name |-> "newDonationStream",
                                  stream |-> DonationStream(streamId, donor, recipient, amount, cause)]),
                   socket, [name |-> "streamStarted", streamId |-> streamId,
                            status |-> "active"])
    /\ published' = Append(published,
                       [name |-> "newDonationStream",
                        stream |-> DonationStream(streamId, donor, recipient, amount, cause)])
    /\ hubStarts' = [hubStarts EXCEPT ![streamId] = @ + 1]
    /\ hubSteps' = hubSteps + 1
    /\ UNCHANGED <<hubStops, connected, io, simulating, joinedAt,
                   hookVars, histVars, clockVars, portalVars, serverVars>>

\* socket.on('stopDonationStream', data => ...)
StopDonationStream(socket, streamId) ==
    /\ hubSteps < MaxHubSteps
    /\ socket \in connected
    /\ IF streamId \in DOMAIN registry
       THEN /\ registry' = MapDelete(registry, streamId)
            /\ inbox' = SocketEmit(
                           IoEmit(inbox, [name |-> "donationStreamCompleted",
                                          stream |-> [registry[streamId] EXCEPT
                                                         !.status = "completed"]]),
                           socket, [name |-> "streamStopped", streamId |-> streamId,
                                    status |-> "completed"])
            /\ published' = Append(published,
                               [name |-> "donationStreamCompleted",
                                stream |-> [registry[streamId] EXCEPT
                                               !.status = "completed"]])
       ELSE UNCHANGED <<registry, inbox, published>>
    /\ hubStops' = [hubStops EXCEPT ![streamId] = @ + 1]
    /\ hubSteps' = hubSteps + 1
    /\ UNCHANGED <<connected, hubStarts, io, simulating, joinedAt,
                   hookVars, histVars, clockVars, portalVars, serverVars>>

\* the event the donationEvent handler builds; timestamp is Date.now() at the
\* handling, for which the count of the messages handled so far stands
RealTimeDonation(streamId, amount, timestamp) ==
    [name |-> "realTimeDonation", type |-> "stream", streamId |-> streamId,
     amount |-> amount, txHash |-> "0xabc", timestamp |-> timestamp]

\* socket.on('donationEvent', data => ...)
DonationEvent(socket, streamId, amount) ==
    /\ hubSteps < MaxHubSteps
    /\ socket \in connected
    /\ inbox' = IoEmit(inbox, RealTimeDonation(streamId, amount, hubSteps))
    /\ published' = Append(published, RealTimeDonation(streamId, amount, hubSteps))
    /\ hubSteps' = hubSteps + 1
    /\ UNCHANGED <<hubStops, connected, registry, hubStarts, io, simulating, joinedAt,
                   hookVars, histVars, clockVars, portalVars, serverVars>>

\* socket.on('urgentNeedAlert', data => ...)
UrgentNeedAlert(socket, title) ==
    /\ hubSteps < MaxHubSteps
    /\ socket \in connected
    /\ inbox' = IoEmit(inbox, [name |-> "urgentNeed", title |-> title, id |-> hubSteps])
    /\ published' = Append(published,
                       [name |-> "urgentNeed", title |-> title, id |-> hubSteps])
    /\ hubSteps' = hubSteps + 1
    /\ UNCHANGED <<hubStops, connected, registry, hubStarts, io, simulating, joinedAt,
                   hookVars, histVars, clockVars, portalVars, serverVars>>

\* broadcastDonationUpdate(donationData) and broadcastAnalyticsUpdate(analyticsData),
\* called by the server's other modules: if (io) io.emit(name, data)
BroadcastUpdate(name, data) ==
    /\ hubSteps < MaxHubSteps
    /\ IF io
       THEN /\ inbox' = IoEmit(inbox, [name |-> name, data |-> data])
            /\ published' = Append(published, [name |-> name, data |-> data])
       ELSE UNCHANGED <<inbox, published>>
    /\ hubSteps' = hubSteps + 1
    /\ UNCHANGED <<hubStops, connected, registry, hubStarts, io, simulating, joinedAt,
                   hookVars, histVars, clockVars, portalVars, serverVars>>

\* the timer of simulateRealTimeActivity: a made-up donation, with no streamId
SimulatedDonation(donor) ==
    /\ hubSteps < MaxHubSteps
    /\ simulating
    /\ inbox' = IoEmit(inbox, [name |-> "realTimeDonation", donor |-> donor,
                               txHash |-> "0xsim"])
    /\ published' = Append(published, [name |-> "realTimeDonation", donor |-> donor,
                                       txHash |-> "0xsim"])
    /\ hubSteps' = hubSteps + 1
    /\ UNCHANGED <<hubStops, connected, registry, hubStarts, io, simulating, joinedAt,
                   hookVars, histVars, clockVars, portalVars, serverVars>>

HubNext ==
    \/ \E dev \in BOOLEAN : InitializeSocket(dev)
    \/ \E c \in Clients : Connection(c)
    \/ \E c \in Clients : Disconnect(c)
    \/ \E c \in Clients, id \in HubIds, d \in HubDonors, r \in HubRecipients,
          a \in HubAmounts, cs \in HubCauses : StartDonationStream(c, id, d, r, a, cs)
    \/ \E c \in Clients, id \in HubIds : StopDonationStream(c, id)
    \/ \E c \in Clients, id \in HubIds, a \in HubAmounts : DonationEvent(c, id, a)
    \/ \E c \in Clients, t \in HubTitles : UrgentNeedAlert(c, t)
    \/ \E n \in {"donationUpdate", "analyticsUpdate"}, d \in HubUpdates :
          BroadcastUpdate(n, d)
    \/ \E d \in HubDonors : SimulatedDonation(d)

HubSpec == Init /\ [][HubNext]_vars

\* ------------------------------------------------------ the donation routes
\* The records of mockDonations with their id and status; the other fields are
\* written when a record is created and never again. The completion timer of a
\* donation fires streamDuration seconds after its creation: at any moment
\* after it, as far as the other requests are concerned.

\* mockDonations.find(d => d.id === id)?.status, "none" when find returns undefined
StatusOf(donations, id) ==
    IF FindIndex(donations, id) = 0 THEN "none"
    ELSE donations[FindIndex(donations, id)].status

\* donation.status = status, on the record find returned
SetStatus(donations, id, status) ==
    [donations EXCEPT ![FindIndex(donations, id)].status = status]

\* the callback of the completion timer:
\*   const donation = mockDonations.find(d => d.id === newDonation.id);
\*   if (donation) { donation.status = 'completed'; }
Complete(donations, id) ==
    IF FindIndex(donations, id) = 0 THEN donations
    ELSE SetStatus(donations, id, "completed")

\* POST /stream: 400 when a required field is missing, otherwise the new record
\* is put in front of the list, its completion timer is armed and 201 is sent
PostStream(complete) ==
    /\ IF ~complete
       THEN /\ response' = [route |-> "POST /stream", id |-> 0, code |-> 400]
            /\ UNCHANGED <<mockDonations, completionTimers>>
       ELSE /\ Len(mockDonations) < MockDonations + MaxDonations
            /\ mockDonations' =
                  <<[id |-> Len(mockDonations) + 1, status |-> "streaming"]>>
                      \o mockDonations
            /\ completionTimers' = completionTimers \cup {Len(mockDonations) + 1}
            /\ response' = [route |-> "POST /stream", id |-> Len(mockDonations) + 1,
                            code |-> 201]
    /\ UNCHANGED <<gate, hookVars, histVars, hubVars, clockVars, portalVars>>

\* the completion timer of a donation fires
CompletionTimerFires(id) ==
    /\ id \in completionTimers
    /\ completionTimers' = completionTimers \ {id}
    /\ mockDonations' = Complete(mockDonations, id)
    /\ UNCHANGED <<response, gate, hookVars, histVars, hubVars, clockVars, portalVars>>

\* POST /:id/stop
PostStop(id) ==
    /\ IF StatusOf(mockDonations, id) = "none"
       THEN /\ response' = [route |-> "POST /:id/stop", id |-> id, code |-> 404]
            /\ UNCHANGED mockDonations
       ELSE IF StatusOf(mockDonations, id) # "streaming"
       THEN /\ response' = [route |-> "POST /:id/stop", id |-> id, code |-> 400]
            /\ UNCHANGED mockDonations
       ELSE /\ mockDonations' = SetStatus(mockDonations, id, "stopped")
            /\ response' = [route |-> "POST /:id/stop", id |-> id, code |-> 200]
    /\ UNCHANGED <<completionTimers, gate, hookVars, histVars, hubVars, clockVars,
                   portalVars>>

\* GET /:id
GetDonation(id) ==
    /\ response' = [route |-> "GET /:id", id |-> id,
                    code |-> IF StatusOf(mockDonations, id) = "none" THEN 404 ELSE 200]
    /\ UNCHANGED <<mockDonations, completionTimers, gate, hookVars, histVars, hubVars,
                   clockVars, portalVars>>

RouteNext ==
    \/ \E complete \in BOOLEAN : PostStream(complete)
    \/ \E id \in DonationIds : CompletionTimerFires(id)
    \/ \E id \in DonationIds : PostStop(id)
    \/ \E id \in DonationIds : GetDonation(id)

RouteSpec == Init /\ [][RouteNext]_vars

\* ------------------------------------------------------ the x402 middleware
\* A request is its two headers; a header is absent or a string. Of the proof
\* only its length is read, so its characters are all the same. The strings of
\* the amount are made of digits, the point, the minus sign and a letter.
ProofHeaders ==
    {NoHeader} \cup {[present |-> TRUE, text |-> [i \in 1..n |-> "a"]] : n \in 0..MaxProofLen}
AmountHeaders ==
    {NoHeader} \cup
    {[present |-> TRUE, text |-> t] : t \in UNION {[1..n -> AmountChars] : n \in 0..MaxAmountLen}}

IsDigit(ch) == ch \in {"0", "1", "5"}

\* the longest prefix of a string that consists of digits
RECURSIVE DigitRun(_)
DigitRun(s) ==
    IF s = <<>> THEN <<>>
    ELSE IF ~IsDigit(s[1]) THEN <<>>
    ELSE <<s[1]>> \o DigitRun(Tail(s))

RECURSIVE Pow10(_)
Pow10(n) == IF n = 0 THEN 1 ELSE 10 * Pow10(n - 1)

\* parseFloat(s): the longest prefix of s that is a decimal literal (an optional
\* minus sign, digits, an optional point and digits), NaN when there is none.
\* The number is digits / 10^scale, negated when negative.
ParseHeaderFloat(s) ==
    LET negative == IF s = <<>> THEN FALSE ELSE s[1] = "-"
        body == IF negative THEN Tail(s) ELSE s
        whole == DigitRun(body)
        rest == SubSeq(body, Len(whole) + 1, Len(body))
        fraction == IF rest = <<>> THEN <<>>
                    ELSE IF rest[1] = "." THEN DigitRun(Tail(rest)) ELSE <<>>
    IN  [nan |-> whole = <<>> /\ fraction = <<>>, negative |-> negative,
         digits |-> DigitsValue(whole \o fraction), scale |-> Len(fraction)]

\* v < 0.001 in JavaScript: false when v is NaN
LessThanMinimum(v) ==
    IF v.nan THEN FALSE
    ELSE IF v.negative THEN TRUE
    ELSE v.digits * MinAmountDenominator < Pow10(v.scale)

\* !header: the header is undefined or the empty string
Falsy(header) == ~header.present \/ header.text = <<>>

\* isValidPaymentProof(proof, amount)
IsValidPaymentProof(proof, amount) ==
    IF Falsy(proof) \/ Len(proof.text) < MinProofLength THEN FALSE
    ELSE IF Falsy(amount) THEN FALSE
    ELSE IF LessThanMinimum(ParseHeaderFloat(amount.text)) THEN FALSE
    ELSE TRUE

\* x402Middleware(req, res, next): what it does with the request, in order.
\* The middleware keeps nothing from one request to the next, so the requests
\* are handled one after the other.
X402Middleware(proof, amount) ==
    /\ gate = NoRequest
    /\ gate' = [proof |-> proof, amount |-> amount,
                effects |-> IF Falsy(proof) THEN <<"402 Payment Required">>
                            ELSE IF ~IsValidPaymentProof(proof, amount)
                            THEN <<"402 Invalid Payment">>
                            ELSE <<"next">>]
    /\ UNCHANGED <<mockDonations, completionTimers, response,
                   hookVars, histVars, hubVars, clockVars, portalVars>>

\* the middleware returns: the request is over
X402MiddlewareReturns ==
    /\ gate # NoRequest
    /\ gate' = NoRequest
    /\ UNCHANGED <<mockDonations, completionTimers, response,
                   hookVars, histVars, hubVars, clockVars, portalVars>>

GateNext ==
    \/ \E proof \in ProofHeaders, amount \in AmountHeaders : X402Middleware(proof, amount)
    \/ X402MiddlewareReturns

GateSpec == Init /\ [][GateNext]_vars

\* ------------------------------------------------------------- the claims
Issued == 1..(nextId - 1)
IsStopped(k) == ~streams[k].isActive

\* C1: once a stream is marked stopped (isActive false), none of its fields
\* changes again; a payment that was in flight at the stop adds nothing to it.
C1_StoppedStreamNeverChanges ==
    [][\A k \in 1..Len(streams) : IsStopped(k) => streams'[k] = streams[k]]_vars

\* C2: for every stream, totalSent = amount * (its ticks whose payment succeeded),
\* succeeded ticks never exceed attempted ticks, and every attempted tick is
\* either pending, succeeded or failed (none lost, none counted twice).
C2_TotalSentIsAmountTimesSucceeded ==
    \A k \in 1..Len(streams) :
        LET i == streams[k].id IN
        /\ streams[k].totalSent = streams[k].amount * succeeded[i]
        /\ succeeded[i] <= attempted[i]
        /\ attempted[i] = succeeded[i] + failed[i] + inflight[i]

C2_Witness ==
    /\ Len(streams) = 2
    /\ streams[1].amount = 2 /\ succeeded[1] = 2 /\ streams[1].totalSent = 4
    /\ streams[2].amount = 1 /\ succeeded[2] = 1 /\ streams[2].totalSent = 1

\* C3: after stopPaymentStream(id) no new tick of stream id begins:
\* processPayment is not invoked again for a stream marked inactive.
C3_NoTickBeginsAfterStop ==
    [][\A k \in 1..Len(streams) :
          IsStopped(k) => attempted'[streams[k].id] = attempted[streams[k].id]]_vars

C3_Witness ==
    \E k \in 1..Len(streams) :
        /\ IsStopped(k)
        /\ stopCalls[streams[k].id] >= 1
        /\ attempted[streams[k].id] = 1
        /\ inflight[streams[k].id] = 0
        /\ Total(attempted) < MaxTicks

\* C4: a start with amount <= 0, intervalSeconds <= 0 or an empty recipient is
\* rejected: no such stream is ever in the list and no timer is armed for it.
C4_InvalidParametersRejected ==
    \A k \in 1..Len(streams) :
        /\ streams[k].amount > 0
        /\ streams[k].interval > 0
        /\ streams[k].recipient # ""

\* C5: a tick whose payment fails changes no stream (the stream stays Active,
\* totalSent as it was), adds no attempted tick and leaves every timer armed.
C5_FailedTickKeepsStreaming ==
    [][\A i \in StreamIds :
          failed'[i] > failed[i] =>
             /\ streams' = streams
             /\ timers' = timers
             /\ attempted' = attempted
             /\ succeeded' = succeeded]_vars

C5_Witness ==
    \E k \in 1..Len(streams) :
        LET i == streams[k].id IN
        /\ attempted[i] = 3 /\ failed[i] = 1 /\ succeeded[i] = 2
        /\ streams[k].isActive /\ i \in timers
        /\ streams[k].amount = 2 /\ streams[k].totalSent = 4

\* C6: a stopPaymentStream call for a stream that is already stopped changes
\* nothing: two calls in a row leave the state one call leaves.
C6_SecondStopChangesNothing ==
    [][\A k \in 1..Len(streams) :
          (IsStopped(k) /\ stopCalls'[streams[k].id] > stopCalls[streams[k].id])
             => hookVars' = hookVars]_vars

C6_Witness ==
    \E k \in 1..Len(streams) :
        /\ stopCalls[streams[k].id] = 2
        /\ IsStopped(k)
        /\ \E j \in 1..Len(streams) : j # k /\ streams[j].isActive

\* C7: a tick completion or a stop of stream A changes no field and no timer of
\* a different stream B; and a stream B whose payments succeed keeps being
\* credited, one amount per tick, for as long as its timer is armed, whatever
\* happens to the other streams (until the run's MaxTicks firings are used up).
StepConcerns(i) ==
    \/ inflight'[i] < inflight[i]
    \/ stopCalls'[i] > stopCalls[i]

C7_Isolation ==
    [][\A k \in 1..Len(streams) : \A i \in StreamIds :
          (i # streams[k].id /\ StepConcerns(i)) =>
              /\ streams'[k] = streams[k]
              /\ (streams[k].id \in timers') = (streams[k].id \in timers)]_vars

C7_HealthyStreamProgresses ==
    \A b \in StreamIds : \A n \in 0..(MaxTicks - 1) :
        (/\ b \in Issued
         /\ executor[b] = "ok"
         /\ succeeded[b] = n
         /\ inflight[b] > 0 \/ (b \in timers /\ Total(attempted) < MaxTicks))
        ~> (\/ b \notin timers /\ inflight[b] = 0
            \/ Total(attempted) = MaxTicks /\ inflight[b] = 0
            \/ /\ succeeded[b] > n
               /\ streams[b].totalSent >= (n + 1) * streams[b].amount)

\* C7: isolation of every stream from the other streams' ticks and stops,
\* together with the progress of a stream whose payments succeed.
C7_IsolationAndProgress == C7_Isolation /\ C7_HealthyStreamProgresses

C7_Witness ==
    \E a, b \in Issued :
        /\ a # b
        /\ executor[a] = "fail" /\ failed[a] = 1 /\ ~streams[a].isActive
        /\ executor[b] = "ok" /\ succeeded[b] = 2 /\ streams[b].isActive
        /\ streams[b].totalSent = 2 * streams[b].amount

C9_TotalSentNeverDecreases ==
    [][\A k \in 1..Len(streams) : streams'[k].totalSent >= streams[k].totalSent]_vars

\* C10: no id is ever used for two streams: the hook's streams have pairwise
\* different ids, and the hub handles at most one start per streamId, so no
\* start replaces the record of an existing stream or revives a stopped id.
C10_NoIdUsedTwice ==
    /\ \A j, k \in 1..Len(streams) : j # k => streams[j].id # streams[k].id
    /\ \A id \in HubIds : hubStarts[id] <= 1

\* C11: the active list (getAllStreams, and activeStreams as the hook returns it)
\* holds exactly the streams started and not yet stopped, each once and with its
\* current totalSent, and getTotalStreamAmount is the sum of their amounts; a
\* stopped stream is never listed.
StartedNotStopped == {i \in Issued : stopCalls[i] = 0}

RECURSIVE SumOfStartedAmounts(_)
SumOfStartedAmounts(n) ==
    IF n = 0 THEN 0
    ELSE (IF n \in StartedNotStopped THEN closure[n].amount ELSE 0)
         + SumOfStartedAmounts(n - 1)

C11_ActiveListIsStartedNotStopped ==
    LET list == GetAllStreams(streams) IN
    /\ {list[k].id : k \in 1..Len(list)} = StartedNotStopped
    /\ \A j, k \in 1..Len(list) : j # k => list[j].id # list[k].id
    /\ \A k \in 1..Len(list) :
          /\ list[k].isActive
          /\ list[k].totalSent = closure[list[k].id].amount * succeeded[list[k].id]
    /\ GetTotalStreamAmount(streams) = SumOfStartedAmounts(MaxStreams)

C11_Witness ==
    /\ Len(streams) = 2
    /\ stopCalls[1] = 1 /\ succeeded[1] = 1
    /\ stopCalls[2] = 0 /\ succeeded[2] = 1 /\ streams[2].amount = 1
    /\ Len(GetAllStreams(streams)) = 1
    /\ GetAllStreams(streams)[1].id = 2
    /\ GetAllStreams(streams)[1].totalSent = 1
    /\ GetTotalStreamAmount(streams) = 1

\* ---------------------------------------------------- what an observer is sent
\* the names of the events the hub passes to io.emit
BroadcastNames ==
    {"newDonationStream", "donationStreamCompleted", "realTimeDonation",
     "urgentNeed", "donationUpdate", "analyticsUpdate"}

\* the events of a socket's inbox that were broadcast (not the snapshot, not an
\* acknowledgement sent to the one socket)
Broadcasts(box) == SelectSeq(box, LAMBDA ev : ev.name \in BroadcastNames)

\* the position of the last snapshot in a socket's inbox, 0 when it has none
LastSnapshot(box) ==
    IF \E k \in 1..Len(box) : box[k].name = "activeStreams"
    THEN CHOOSE k \in 1..Len(box) :
            /\ box[k].name = "activeStreams"
            /\ \A j \in (k + 1)..Len(box) : box[j].name # "activeStreams"
    ELSE 0

\* the broadcast events a socket was sent since it last connected
Session(c) ==
    Broadcasts(SubSeq(inbox[c], LastSnapshot(inbox[c]) + 1, Len(inbox[c])))

\* the events published since a socket last connected
PublishedSince(c) == SubSeq(published, joinedAt[c] + 1, Len(published))

\* whether an event concerns the stream with the given id
Concerns(ev, streamId) ==
    CASE ev.name \in {"newDonationStream", "donationStreamCompleted"} ->
            ev.stream.id = streamId
      [] ev.name = "realTimeDonation" ->
            "streamId" \in DOMAIN ev /\ ev.streamId = streamId
      [] OTHER -> FALSE

\* the streams started and not yet stopped, according to the published events:
\* every newDonationStream with no later donationStreamCompleted for its id
StartedNotCompleted(log) ==
    {log[k].stream : k \in {n \in 1..Len(log) :
        /\ log[n].name = "newDonationStream"
        /\ \A j \in (n + 1)..Len(log) :
              ~(log[j].name = "donationStreamCompleted"
                /\ log[j].stream.id = log[n].stream.id)}}

\* C17: a socket that connects is sent a snapshot holding exactly the streams
\* started and not yet stopped at that moment, and after it only the events
\* published after the connection, none published before.
C17_SnapshotThenLiveFeed ==
    \A c \in connected :
        /\ LastSnapshot(inbox[c]) > 0
        /\ inbox[c][LastSnapshot(inbox[c])].streams =
              StartedNotCompleted(SubSeq(published, 1, joinedAt[c]))
        /\ Session(c) = PublishedSince(c)

C19_FanOutToEveryConnected ==
    [][Len(published') > Len(published) =>
          \A c \in Clients :
              IF c \in connected
              THEN Broadcasts(inbox'[c])
                      = Append(Broadcasts(inbox[c]), published'[Len(published')])
              ELSE inbox'[c] = inbox[c]]_vars

C19_Witness ==
    /\ connected = Clients
    /\ Len(published) = 2
    /\ published[1].name = "urgentNeed"
    /\ published[2].name \in {"donationUpdate", "analyticsUpdate"}
    /\ \A c \in Clients : Session(c) = published

\* ------------------------------------------------------- the timed engine
\* C12: startPaymentStream returns the new id at once: when it returns, the
\* stream is in the active list, active, with totalSent 0, processPayment has
\* not been invoked for it, and its first tick (like every tick) begins no
\* earlier than one full interval after the stream was started.
C12_ReturnsBeforeFirstTick ==
    [][/\ nextId' > nextId =>
            /\ ret'.op = "startPaymentStream" /\ ret'.value = "streamId"
            /\ ret'.id = nextId
            /\ \E k \in 1..Len(GetAllStreams(streams')) :
                  /\ GetAllStreams(streams')[k].id = nextId
                  /\ GetAllStreams(streams')[k].isActive
                  /\ GetAllStreams(streams')[k].totalSent = 0
            /\ attempted'[nextId] = 0
            /\ inflight'[nextId] = 0
       /\ \A i \in StreamIds :
            attempted'[i] > attempted[i] =>
               now >= startTime[i]
                        + (attempted[i] + 1)
                          * streams[FindIndex(streams, i)].interval * MsPerSecond]_vars

C12_Witness ==
    \E i \in Issued :
        /\ startTime[i] = ClockStepMs
        /\ attempted[i] = 1 /\ inflight[i] = 1
        /\ streams[i].totalSent = 0
        /\ now = startTime[i] + streams[i].interval * MsPerSecond

\* the value by which the hook tells its caller that no stream has the id
NotFound == "null"

\* C13: a stopPaymentStream or getStreamStats call with an id that was never
\* issued reports NotFound to its caller.
C13_UnknownIdReportsNotFound ==
    (ret.op \in {"stopPaymentStream", "getStreamStats"} /\ ~ret.issued)
        => ret.value = NotFound

\* C14: getStreamStats of an existing stream returns the stream's current
\* totalSent, expectedPayments = floor(runtime / interval) and
\* successRate = successCount / max(expectedPayments, 1) * 100 with
\* successCount = totalSent / amount (divisor 1 when expectedPayments is 0).
C14_StatsFormula ==
    [][(ret' # ret /\ ret'.op = "getStreamStats" /\ ret'.issued) =>
          LET st == ret'.stats
              stream == streams[FindIndex(streams, ret'.id)]
              runtimeMs == now - startTime[ret'.id]
              intervalMs == stream.interval * MsPerSecond
              successCount == succeeded[ret'.id]
              divisor == IF st.expectedPayments > 1 THEN st.expectedPayments ELSE 1
          IN  /\ ret'.value = "stats"
              /\ st.totalSent = stream.totalSent
              /\ successCount * stream.amount = stream.totalSent
              /\ st.expectedPayments * intervalMs <= runtimeMs
              /\ runtimeMs < (st.expectedPayments + 1) * intervalMs
              /\ st.rateNum * divisor = successCount * 100 * st.rateDen]_vars

C14_Witness ==
    /\ ret.op = "getStreamStats" /\ ret.value = "stats"
    /\ ret.stats.expectedPayments = 0
    /\ ret.stats.runtimeMs = ClockStepMs
    /\ ret.stats.rateNum = 0
    /\ ret.stats.isActive

\* C20: no two ticks of one stream are in progress at the same time.
C20_NoOverlappingTicks ==
    \A i \in StreamIds : inflight[i] <= 1

\* ------------------------------------------------------------------- fees
\* C15: calculateX402Fee(amount) is max(0.01, amount * 0.001): the minimum up to
\* the amount at which the rate reaches it and the rate's share above; the same
\* value for the same amount on every call, never less than the minimum, and
\* non-decreasing in the amount.
C15_FeeIsFlooredRateMonotone ==
    /\ \A k \in 1..2 :
          feeCalls[k].called =>
             /\ feeCalls[k].fee >= MinimumFee
             /\ feeCalls[k].fee =
                   (IF feeCalls[k].amount * FeeRateScaled > MinimumFee
                    THEN feeCalls[k].amount * FeeRateScaled ELSE MinimumFee)
    /\ (feeCalls[1].called /\ feeCalls[2].called) =>
          /\ feeCalls[1].amount = feeCalls[2].amount => feeCalls[1].fee = feeCalls[2].fee
          /\ feeCalls[1].amount <= feeCalls[2].amount => feeCalls[1].fee <= feeCalls[2].fee

C15_Witness ==
    /\ feeCalls[1].called /\ feeCalls[1].amount = 5 /\ feeCalls[1].fee = MinimumFee
    /\ feeCalls[2].called /\ feeCalls[2].amount = 12 /\ feeCalls[2].fee = 12

\* C16: the total the portal shows when a stream is started is the amount plus
\* the fee calculateX402Fee of the hook gives for it, for every positive amount.
C16_TotalShownIsAmountPlusFee ==
    (portal.alert.kind = "started" /\ portal.alert.amount > 0) =>
        portal.alert.total
            = ToFixed4(portal.alert.amount * FeeScale
                       + CalculateX402Fee(portal.alert.amount))

\* ------------------------------------------------------------ tick events
\* the per-tick events among a sequence of published events
TickEvents(log) == SelectSeq(log, LAMBDA ev : ev.name = "realTimeDonation")

\* C21: every tick of a stream whose payment has returned has produced exactly
\* one payment event that was handed to the broadcaster.
C21_EachTickPublishesOneEvent ==
    Len(TickEvents(published)) = Total(succeeded) + Total(failed)

\* whether the stream with the id is registered after the events of a log:
\* its last newDonationStream is followed by no donationStreamCompleted
RegisteredAfter(log, streamId) ==
    \E n \in 1..Len(log) :
        /\ log[n].name = "newDonationStream" /\ log[n].stream.id = streamId
        /\ \A j \in (n + 1)..Len(log) :
              ~(log[j].name = "donationStreamCompleted" /\ log[j].stream.id = streamId)

\* C22: the hub broadcasts a per-tick event carrying streamId X only while X is
\* registered: none after the donationStreamCompleted of X, none for an id that
\* was never started.
C22_NoTickEventForUnregisteredStream ==
    \A k \in 1..Len(published) :
        (published[k].name = "realTimeDonation" /\ "streamId" \in DOMAIN published[k])
            => RegisteredAfter(SubSeq(published, 1, k - 1), published[k].streamId)

\* ------------------------------------------------------------ tick schedule
\* C23: ticks are scheduled from the start of the previous tick, not from its
\* completion: the n-th tick of a stream begins n intervals after the stream's
\* creation, and the tick after it is due one interval later.
C23_TickStartsOnSchedule ==
    [][\A i \in StreamIds :
          attempted'[i] # attempted[i] =>
              /\ attempted'[i] = attempted[i] + 1
              /\ now = startTime[i] + attempted'[i] * closure[i].intervalMs
              /\ timerDue'[i] = now + closure[i].intervalMs]_vars

\* the second tick of a stream whose interval is longer than a payment takes
\* begins two intervals after creation, the first tick's payment having returned
C23_Witness ==
    \E i \in StreamIds :
        /\ i < nextId
        /\ closure[i].intervalMs > PaymentLatencyMs
        /\ attempted[i] = 2
        /\ succeeded[i] + failed[i] = 1
        /\ inflight[i] = 1
        /\ now = startTime[i] + 2 * closure[i].intervalMs
        /\ timerDue[i] = startTime[i] + 3 * closure[i].intervalMs

\* ------------------------------------------------------- immutable fields
\* the fields of a stream record that are written at creation only
Identity(stream) ==
    [id |-> stream.id, amount |-> stream.amount, interval |-> stream.interval,
     recipient |-> stream.recipient]

\* C24: id, amount, interval, recipient and startTime of a stream never change
\* after its creation: a tick completion changes at most totalSent, a stop at
\* most isActive, and a statistics query changes no stream.
C24_IdentityFieldsAreFrozen ==
    [][/\ Len(streams') >= Len(streams)
       /\ \A k \in 1..Len(streams) :
             /\ Identity(streams'[k]) = Identity(streams[k])
             /\ startTime'[streams[k].id] = startTime[streams[k].id]
       /\ \A i \in StreamIds, ok \in BOOLEAN :
             PaymentResolves(i, ok) =>
                 /\ Len(streams') = Len(streams)
                 /\ \A k \in 1..Len(streams) :
                       [streams'[k] EXCEPT !.totalSent = 0]
                           = [streams[k] EXCEPT !.totalSent = 0]
       /\ \A i \in StreamIds :
             StopPaymentStreamAt(i) =>
                 /\ Len(streams') = Len(streams)
                 /\ \A k \in 1..Len(streams) :
                       [streams'[k] EXCEPT !.isActive = FALSE]
                           = [streams[k] EXCEPT !.isActive = FALSE]
       /\ \A i \in StreamIds :
             GetStreamStatsAt(i) => (streams' = streams /\ startTime' = startTime)]_vars

\* a stream that has been credited by a tick and then stopped, and whose
\* statistics were then read, still has the fields it was created with
C24_Witness ==
    \E k \in 1..Len(streams) :
        /\ streams[k].totalSent > 0
        /\ ~streams[k].isActive
        /\ ret.op = "getStreamStats" /\ ret.id = streams[k].id
        /\ now > startTime[streams[k].id]
        /\ streams[k].amount = closure[streams[k].id].amount
        /\ streams[k].recipient = closure[streams[k].id].recipient
        /\ streams[k].interval * MsPerSecond = closure[streams[k].id].intervalMs

\* ----------------------------------------------------------- hub registry
\* C25: whatever clients connect, disconnect and send, every stream in the
\* hub's registry has status 'active' and is stored under its own id, and the
\* registry holds exactly the ids whose latest start was not followed by a stop.
C25_RegistryIsStartedNotStopped ==
    /\ \A id \in DOMAIN registry :
          registry[id].status = "active" /\ registry[id].id = id
    /\ DOMAIN registry = {id \in HubIds : RegisteredAfter(published, id)}

\* two streams were started and the first one stopped: the second one alone
\* is registered
C25_Witness ==
    /\ DOMAIN registry = {"s2"}
    /\ hubStarts["s1"] = 1
    /\ \E n \in 1..Len(published) :
          published[n].name = "donationStreamCompleted" /\ published[n].stream.id = "s1"

\* ---------------------------------------------------------- donation routes
\* C26: a donation whose status is 'stopped' keeps that status for ever: the
\* completion timer does not turn it into 'completed', and a stop request for
\* a donation that is not 'streaming' is answered 400 and changes no record.
C26_StoppedIsFinal ==
    [][/\ \A id \in DonationIds :
             StatusOf(mockDonations, id) = "stopped"
                 => StatusOf(mockDonations', id) = "stopped"
       /\ \A id \in DonationIds :
             (PostStop(id) /\ StatusOf(mockDonations, id) \notin {"none", "streaming"})
                 => (response'.code = 400 /\ mockDonations' = mockDonations)]_vars

\* ------------------------------------------------------------ hub: stopping
\* the events of a sequence that have the name
Named(log, name) == SelectSeq(log, LAMBDA ev : ev.name = name)

\* the events appended to a sequence by a step in which it grew
Added(before, after) == SubSeq(after, Len(before) + 1, Len(after))

\* C27: a stopDonationStream for an id that is not registered changes nothing
\* and emits nothing; for a registered id it removes the stream, emits one
\* donationStreamCompleted to every connected socket and one streamStopped to
\* the sender alone.
C27_StopOfUnknownIdIsSilent ==
    [][\A c \in Clients, id \in HubIds :
          StopDonationStream(c, id) =>
              IF id \notin DOMAIN registry
              THEN /\ registry' = registry /\ inbox' = inbox
                   /\ published' = published /\ connected' = connected
              ELSE /\ DOMAIN registry' = DOMAIN registry \ {id}
                   /\ \A x \in DOMAIN registry' : registry'[x] = registry[x]
                   /\ Len(published') = Len(published) + 1
                   /\ published'[Len(published')].name = "donationStreamCompleted"
                   /\ published'[Len(published')].stream.id = id
                   /\ \A x \in Clients :
                         /\ x \notin connected => inbox'[x] = inbox[x]
                         /\ x \in connected =>
                               Len(Named(Added(inbox[x], inbox'[x]),
                                         "donationStreamCompleted")) = 1
                         /\ Len(Named(Added(inbox[x], inbox'[x]), "streamStopped"))
                               = IF x = c THEN 1 ELSE 0
                         /\ Len(Added(inbox[x], inbox'[x])) <= 2]_vars

\* a registered stream was stopped and a stop for an id that was never started
\* was handled too: one completion was published, and the sender holds one
\* donationStreamCompleted and one streamStopped
C27_Witness ==
    /\ hubStarts["s1"] = 1 /\ hubStops["s1"] = 1
    /\ hubStarts["s2"] = 0 /\ hubStops["s2"] = 1
    /\ registry = EmptyMap
    /\ Len(Named(published, "donationStreamCompleted")) = 1
    /\ \E c \in connected :
          /\ Len(Named(inbox[c], "streamStopped")) = 1
          /\ Len(Named(inbox[c], "donationStreamCompleted")) = 1

\* --------------------------------------------------------- hub: disconnect
\* C28: a disconnect leaves the registry as it is: the streams stay registered
\* as active, every later connection receives them in its snapshot, and a
\* stream leaves the registry only when a stopDonationStream for it is handled.
C28_DisconnectKeepsStreams ==
    [][/\ \A c \in Clients : Disconnect(c) => registry' = registry
       /\ \A id \in DOMAIN registry :
             id \notin DOMAIN registry' => hubStops'[id] = hubStops[id] + 1
       /\ \A c \in Clients :
             Connection(c) =>
                 /\ inbox'[c] # <<>>
                 /\ inbox'[c][Len(inbox'[c])].name = "activeStreams"
                 /\ inbox'[c][Len(inbox'[c])].streams = MapValues(registry)
                 /\ \A id \in DOMAIN registry : registry[id].status = "active"]_vars

\* the socket that started s1 has gone, s1 is still registered as active, and
\* the socket that connected afterwards was sent s1 in its snapshot
C28_Witness ==
    /\ connected = {"c2"}
    /\ \E n \in 1..Len(inbox["c1"]) :
          inbox["c1"][n].name = "streamStarted" /\ inbox["c1"][n].streamId = "s1"
    /\ "s1" \in DOMAIN registry /\ registry["s1"].status = "active"
    /\ Len(inbox["c2"]) = 1
    /\ inbox["c2"][1].name = "activeStreams"
    /\ registry["s1"] \in inbox["c2"][1].streams

\* ----------------------------------------------------------- x402 middleware
\* the amount header is present and parses to a number of at least 0.001
AmountSuffices(amount) ==
    /\ amount.present
    /\ ~ParseHeaderFloat(amount.text).nan
    /\ ~ParseHeaderFloat(amount.text).negative
    /\ ParseHeaderFloat(amount.text).digits * MinAmountDenominator
           >= Pow10(ParseHeaderFloat(amount.text).scale)

\* C29: the middleware calls next() only for a request whose x-payment-proof is
\* present with at least 10 characters and whose x-payment-amount is present
\* and parses to a number of at least 0.001; every other request is answered
\* 402 without next(); every request gets exactly one of the two outcomes.
C29_NextOnlyForSufficientPayment ==
    gate # NoRequest =>
        /\ Len(gate.effects) = 1
        /\ IF /\ gate.proof.present /\ Len(gate.proof.text) >= MinProofLength
              /\ AmountSuffices(gate.amount)
           THEN gate.effects[1] = "next"
           ELSE gate.effects[1] \in {"402 Payment Required", "402 Invalid Payment"}

====
